---- MODULE Spec2Model ----
(***************************************************************************)
(* Model of badminton_main.py: a Streamlit script that keeps one day's     *)
(* doubles matches and per-player counters in badminton_data.json.         *)
(* Every user action reruns the whole script: load_data() (with the daily  *)
(* rollover), then at most one button handler, each of which saves.        *)
(***************************************************************************)
EXTENDS Integers, Sequences, FiniteSets, TLC

(* ---------------------------------------------------------------- bounds *)
MaxMatches == 2      \* cap on len(data["matches"])
MaxDay == 2          \* cap on the calendar day the clock reaches
MaxNameLen == 3      \* longest name normalize_name is tried on

(* ------------------------------------------------------- names and keys *)
\* A name is a sequence of characters; "" is the empty sequence.
Blank == <<>>

Space == " "

\* str.upper() on the characters the inputs use
UpperChar(c) ==
    CASE c = "a" -> "A"
      [] c = "b" -> "B"
      [] c = "c" -> "C"
      [] c = "d" -> "D"
      [] c = "e" -> "E"
      [] OTHER -> c

RECURSIVE LStrip(_)
LStrip(s) == IF s # <<>> /\ Head(s) = Space THEN LStrip(Tail(s)) ELSE s

RECURSIVE RStrip(_)
RStrip(s) ==
    IF s # <<>> /\ s[Len(s)] = Space THEN RStrip(SubSeq(s, 1, Len(s) - 1)) ELSE s

\* str.strip()
Strip(s) == RStrip(LStrip(s))

Upper(s) == [i \in 1..Len(s) |-> UpperChar(s[i])]

\* normalize_name: name.strip().upper()
normalize_name(name) == Upper(Strip(name))

\* What the user can type into a name box
Names ==
    { <<>>, <<" ">>, <<"a">>, <<" ", "A", " ">>, <<"b">>, <<"c">>, <<"d">>, <<"E">> }

\* datetime.now(IST).strftime("%H:%M"), as minutes after midnight
Times == { 390 }

\* What the user can type into the remark box
Remarks == { "" }

VARIABLES
    today,   \* module-level today: the calendar day of the clock
    file,    \* badminton_data.json: NoFile or <<the dict last saved>>
    data,    \* module-level data of the latest script run
    message  \* the st.success / st.warning the latest script run showed

vars == <<today, file, data, message>>

NoFile == <<>>

(* ------------------------------------------------ dicts in insertion order *)
\* player_stats is a dict; iteration (sorted(..., key=-count) is stable) sees
\* its insertion order, so it is a sequence of entries.
StatKeys(ps) == { ps[i].name : i \in DOMAIN ps }

StatsHas(ps, k) == \E i \in DOMAIN ps : ps[i].name = k

StatsGet(ps, k, default) ==
    IF StatsHas(ps, k)
    THEN ps[CHOOSE i \in DOMAIN ps : ps[i].name = k].count
    ELSE default

\* d[k] = v
StatsSet(ps, k, v) ==
    IF StatsHas(ps, k)
    THEN [i \in DOMAIN ps |-> IF ps[i].name = k THEN [name |-> k, count |-> v] ELSE ps[i]]
    ELSE Append(ps, [name |-> k, count |-> v])

\* d.pop(k, None), the dict afterwards
StatsPop(ps, k) == SelectSeq(ps, LAMBDA e : e.name # k)

\* name_map maps a key to itself; nothing iterates it
MapSet(nm, k, v) == [x \in DOMAIN nm \cup {k} |-> IF x = k THEN v ELSE nm[x]]

MapPop(nm, k) == [x \in DOMAIN nm \ {k} |-> nm[x]]

EmptyMap == [x \in {} |-> x]

(* ------------------------------------------------------------ file helpers *)
FreshData(day) ==
    [date |-> day, player_stats |-> <<>>, name_map |-> EmptyMap, matches |-> <<>>]

\* a slip: a stale file is replaced by the dict of a first run, name_map included
load_from_starting_over(f, t) ==
    IF f = NoFile
    THEN [d |-> FreshData(t), f |-> NoFile]
    ELSE IF f[1].date # t
         THEN [d |-> FreshData(t), f |-> <<FreshData(t)>>]
         ELSE [d |-> f[1], f |-> f]

\* a slip: the date is not compared, every load clears the day
load_from_always_clearing(f, t) ==
    IF f = NoFile
    THEN [d |-> FreshData(t), f |-> NoFile]
    ELSE LET r == [f[1] EXCEPT !.date = t, !.player_stats = <<>>, !.matches = <<>>]
         IN [d |-> r, f |-> <<r>>]

\* load_data with the file f on day t: the returned dict (d) and the file
\* afterwards (f)
load_from(f, t) ==
    IF f = NoFile
    THEN [d |-> FreshData(t), f |-> NoFile]
    ELSE IF f[1].date # t
         THEN LET r == [f[1] EXCEPT !.date = t,
                                    !.player_stats = <<>>,
                                    !.matches = <<>>]
              IN [d |-> r, f |-> <<r>>]
         ELSE [d |-> f[1], f |-> f]

\* data = load_data()
load_data == load_from(file, today)

(* ----------------------------------------------------------------- utility *)
register_player(d, name) ==
    LET norm == normalize_name(name)
        nm == IF norm \notin DOMAIN d.name_map
              THEN MapSet(d.name_map, norm, norm) ELSE d.name_map
        ps == IF ~StatsHas(d.player_stats, norm)
              THEN StatsSet(d.player_stats, norm, 0) ELSE d.player_stats
    IN [d EXCEPT !.name_map = nm, !.player_stats = ps]

\* a slip: the loop stops before the last selected player
IncrementAllButLast(ps, players) ==
    LET F[n \in 0..Len(players)] ==
            IF n = 0 THEN ps
            ELSE StatsSet(F[n - 1], players[n], StatsGet(F[n - 1], players[n], 0) + 1)
    IN F[IF Len(players) = 0 THEN 0 ELSE Len(players) - 1]

RECURSIVE IncrementAll(_, _)
IncrementAll(ps, players) ==
    IF players = <<>> THEN ps
    ELSE IncrementAll(StatsSet(ps, Head(players), StatsGet(ps, Head(players), 0) + 1),
                      Tail(players))

\* a slip: match_id = len(data["matches"]), the count before the append
add_match_id_from_zero(d, players, remark, now) ==
    LET players_upper == [i \in DOMAIN players |-> normalize_name(players[i])]
        rec == [id |-> Len(d.matches), players |-> players_upper,
                time |-> now, remark |-> remark]
    IN [d EXCEPT !.matches = Append(d.matches, rec),
                 !.player_stats = IncrementAll(d.player_stats, players_upper)]

\* a slip: the record is inserted at the front (latest first, as the history shows it)
add_match_at_front(d, players, remark, now) ==
    LET players_upper == [i \in DOMAIN players |-> normalize_name(players[i])]
        rec == [id |-> Len(d.matches) + 1, players |-> players_upper,
                time |-> now, remark |-> remark]
    IN [d EXCEPT !.matches = <<rec>> \o d.matches,
                 !.player_stats = IncrementAll(d.player_stats, players_upper)]

add_match(d, players, remark, now) ==
    LET match_id == Len(d.matches) + 1
        players_upper == [i \in DOMAIN players |-> normalize_name(players[i])]
        rec == [id |-> match_id, players |-> players_upper, time |-> now, remark |-> remark]
    IN [d EXCEPT !.matches = Append(d.matches, rec),
                 !.player_stats = IncrementAll(d.player_stats, players_upper)]

\* a slip: the counters are dropped as load_data drops them
reset_counters_dropping_entries(d) ==
    [d EXCEPT !.player_stats = <<>>, !.matches = <<>>]

reset_counters(d) ==
    [d EXCEPT !.player_stats = [i \in DOMAIN d.player_stats |->
                                    [name |-> d.player_stats[i].name, count |-> 0]],
              !.matches = <<>>]

today_matches_count(d, player) ==
    Cardinality({ i \in DOMAIN d.matches :
                    \E j \in DOMAIN d.matches[i].players : d.matches[i].players[j] = player })

SeqToSet(s) == { s[i] : i \in DOMAIN s }

(* ------------------------------------------------------ time range helper *)
\* datetime.strptime("H:MM", "%H:%M"), as minutes after midnight
HM(h, m) == h * 60 + m

TIME_RANGES ==
    << <<HM(5, 31), HM(6, 30)>>,
       <<HM(6, 31), HM(7, 0)>>,
       <<HM(7, 1), HM(7, 30)>>,
       <<HM(7, 31), HM(8, 0)>>,
       <<HM(8, 1), HM(10, 0)>> >>

time_in_range(t, start, end) == start <= t /\ t <= end

\* how often player p is listed in record m
Occurrences(m, p) == Cardinality({ j \in DOMAIN m.players : m.players[j] = p })

\* ranges_count[key].get(p, 0) after the loop over the first n matches
RECURSIVE RangeCount(_, _, _, _)
RangeCount(d, r, p, n) ==
    IF n = 0 THEN 0
    ELSE RangeCount(d, r, p, n - 1) +
         (IF time_in_range(d.matches[n].time, TIME_RANGES[r][1], TIME_RANGES[r][2])
          THEN Occurrences(d.matches[n], p) ELSE 0)

\* stats_by_time_range: per range, the players counted and their counts
stats_by_time_range(d) ==
    [r \in DOMAIN TIME_RANGES |->
        LET counted == { p \in UNION { SeqToSet(d.matches[i].players) : i \in DOMAIN d.matches } :
                           RangeCount(d, r, p, Len(d.matches)) > 0 }
        IN [p \in counted |-> RangeCount(d, r, p, Len(d.matches))]]

(* ---------------------------------------------------------------- main() *)
\* list.sort is stable: an entry goes behind the entries of the same count
RECURSIVE InsertByCount(_, _)
InsertByCount(sorted, e) ==
    IF sorted = <<>> THEN <<e>>
    ELSE IF Head(sorted).count >= e.count
         THEN <<Head(sorted)>> \o InsertByCount(Tail(sorted), e)
         ELSE <<e>> \o sorted

\* sorted(data["player_stats"].items(), key=lambda x: -x[1])
RECURSIVE ranked_counts(_)
ranked_counts(ps) ==
    IF ps = <<>> THEN <<>>
    ELSE InsertByCount(ranked_counts(SubSeq(ps, 1, Len(ps) - 1)), ps[Len(ps)])

existing_players(d) == StatKeys(d.player_stats)

\* a slip: the matches are not rewritten
update_name_no_cascade(d, player_to_edit, new_name) ==
    LET norm_new == normalize_name(new_name)
        popped == StatsGet(d.player_stats, player_to_edit, 0)
    IN [d EXCEPT !.player_stats =
                     StatsSet(StatsPop(d.player_stats, player_to_edit), norm_new, popped),
                 !.name_map =
                     MapSet(MapPop(d.name_map, player_to_edit), norm_new, norm_new)]

\* a slip: the new name is stripped but not upper-cased
update_name_keeps_case(d, player_to_edit, new_name) ==
    LET norm_new == Strip(new_name)
        popped == StatsGet(d.player_stats, player_to_edit, 0)
    IN [d EXCEPT !.player_stats =
                     StatsSet(StatsPop(d.player_stats, player_to_edit), norm_new, popped),
                 !.name_map =
                     MapSet(MapPop(d.name_map, player_to_edit), norm_new, norm_new),
                 !.matches =
                     [i \in DOMAIN d.matches |->
                        [d.matches[i] EXCEPT !.players =
                            [j \in DOMAIN d.matches[i].players |->
                                IF d.matches[i].players[j] = player_to_edit
                                THEN norm_new ELSE d.matches[i].players[j]]]]]

\* the "Update Name" handler body
update_name(d, player_to_edit, new_name) ==
    LET norm_new == normalize_name(new_name)
        popped == StatsGet(d.player_stats, player_to_edit, 0)
        ps == StatsSet(StatsPop(d.player_stats, player_to_edit), norm_new, popped)
        nm == MapSet(MapPop(d.name_map, player_to_edit), norm_new, norm_new)
        ms == [i \in DOMAIN d.matches |->
                 [d.matches[i] EXCEPT !.players =
                     [j \in DOMAIN d.matches[i].players |->
                         IF d.matches[i].players[j] = player_to_edit
                         THEN norm_new ELSE d.matches[i].players[j]]]]
    IN [d EXCEPT !.player_stats = ps, !.name_map = nm, !.matches = ms]

\* a slip: the matches keep the removed player
remove_player_no_cascade(d, player_to_remove) ==
    [d EXCEPT !.player_stats = StatsPop(d.player_stats, player_to_remove),
              !.name_map = MapPop(d.name_map, player_to_remove)]

\* a slip: the match records of the removed player are deleted
remove_player_drops_matches(d, player_to_remove) ==
    [d EXCEPT !.player_stats = StatsPop(d.player_stats, player_to_remove),
              !.name_map = MapPop(d.name_map, player_to_remove),
              !.matches = SelectSeq(d.matches,
                              LAMBDA m : \A j \in DOMAIN m.players :
                                            m.players[j] # player_to_remove)]

\* the "Remove Player" handler body
remove_player(d, player_to_remove) ==
    LET ms == [i \in DOMAIN d.matches |->
                 [d.matches[i] EXCEPT !.players =
                     SelectSeq(d.matches[i].players, LAMBDA p : p # player_to_remove)]]
    IN [d EXCEPT !.player_stats = StatsPop(d.player_stats, player_to_remove),
                 !.name_map = MapPop(d.name_map, player_to_remove),
                 !.matches = ms]

\* The match history unpacks p1, p2 = m["players"][:2] and p3, p4 =
\* m["players"][2:]; a record without exactly 4 players raises ValueError there
\* and the script run ends before the widgets below the history exist.
history_renders(d) == \A i \in DOMAIN d.matches : Len(d.matches[i].players) = 4

\* a script run that saves d
Saved(d, msg) == data' = d /\ file' = <<d>> /\ message' = msg /\ UNCHANGED today

\* a script run whose handler does nothing after load_data
Untouched(msg) ==
    data' = load_data.d /\ file' = load_data.f /\ message' = msg /\ UNCHANGED today

(* ----------------------------------------------------------------- actions *)
Init ==
    /\ today = 1
    /\ file = NoFile
    /\ data = FreshData(1)
    /\ message = "none"

\* a page load with no button pressed
Rerun == Untouched("none")

\* a slip: the handler does not test new_player.strip()
RegisterPlayerNoBlankCheck(new_player) ==
    Saved(register_player(load_data.d, new_player), "registered")

RegisterPlayer(new_player) ==
    IF Strip(new_player) # Blank
    THEN Saved(register_player(load_data.d, new_player), "registered")
    ELSE Untouched("none")

\* a slip: the uniqueness check is missing
AddMatchRecordNoUniqueCheck(sel, remark, now) ==
    /\ Cardinality(existing_players(load_data.d)) >= 4
    /\ SeqToSet(sel) \subseteq existing_players(load_data.d) \cup {Blank}
    /\ LET players_selected == SelectSeq(sel, LAMBDA p : p # Blank)
       IN IF Len(players_selected) # 4
          THEN Untouched("select4")
          ELSE /\ Len(load_data.d.matches) < MaxMatches
               /\ Saved(add_match(load_data.d, players_selected, remark, now), "added")

AddMatchRecord(sel, remark, now) ==
    /\ Cardinality(existing_players(load_data.d)) >= 4
    /\ SeqToSet(sel) \subseteq existing_players(load_data.d) \cup {Blank}
    /\ LET players_selected == SelectSeq(sel, LAMBDA p : p # Blank)
       IN IF Len(players_selected) # 4
          THEN Untouched("select4")
          ELSE IF Cardinality(SeqToSet(players_selected)) < 4
               THEN Untouched("unique")
               ELSE /\ Len(load_data.d.matches) < MaxMatches
                    /\ Saved(add_match(load_data.d, players_selected, remark, now), "added")

ResetCounters ==
    /\ history_renders(load_data.d)
    /\ Saved(reset_counters(load_data.d), "reset")

UpdateName(player_to_edit, new_name) ==
    /\ history_renders(load_data.d)
    /\ existing_players(load_data.d) # {}
    /\ player_to_edit \in existing_players(load_data.d) \cup {Blank}
    /\ IF player_to_edit # Blank /\ Strip(new_name) # Blank
       THEN Saved(update_name(load_data.d, player_to_edit, new_name), "renamed")
       ELSE Untouched("none")

RemovePlayer(player_to_remove) ==
    /\ history_renders(load_data.d)
    /\ existing_players(load_data.d) # {}
    /\ player_to_remove \in existing_players(load_data.d) \cup {Blank}
    /\ IF player_to_remove # Blank
       THEN Saved(remove_player(load_data.d, player_to_remove), "removed")
       ELSE Untouched("none")

\* midnight passes
Tick ==
    /\ today < MaxDay
    /\ today' = today + 1
    /\ UNCHANGED <<file, data, message>>

Keys == { normalize_name(n) : n \in Names } \ {Blank}

\* What the user can pick in the four select boxes (from [""] + existing_players)
Selections ==
    { <<<<"B">>, <<"A">>, <<"D">>, <<"C">>>>,
      <<<<"A">>, <<"B">>, <<"C">>, <<"A">>>>,
      <<<<"A">>, <<"B">>, Blank, <<"D">>>> }

\* What the user can pick in "Select Player to Edit" / "Select Player to Remove"
EditChoices == { Blank, <<"A">> }

RemoveChoices == { Blank, <<"D">> }

\* What the user can type into the "New Name" box
NewNames == { <<>>, <<"b">>, <<" ", "e">> }

Next ==
    \/ Rerun
    \/ \E n \in Names : RegisterPlayer(n)
    \/ \E sel \in Selections, r \in Remarks, t \in Times : AddMatchRecord(sel, r, t)
    \/ ResetCounters
    \/ \E p \in EditChoices, n \in NewNames : UpdateName(p, n)
    \/ \E p \in RemoveChoices : RemovePlayer(p)
    \/ Tick

Spec == Init /\ [][Next]_vars

\* Only registrations and add-match attempts: no rename, removal, reset or rollover
NextLedger ==
    \/ \E n \in Names : RegisterPlayer(n)
    \/ \E sel \in Selections, r \in Remarks, t \in Times : AddMatchRecord(sel, r, t)

SpecLedger == Init /\ [][NextLedger]_vars

\* The clock at an add-match: around every range boundary, at night and at noon
ClockTimes ==
    { HM(0, 0), HM(5, 30), HM(5, 31), HM(6, 30), HM(6, 31), HM(7, 0), HM(7, 1),
      HM(7, 30), HM(7, 31), HM(8, 0), HM(8, 1), HM(10, 0), HM(10, 1), HM(12, 0),
      HM(23, 59) }

\* The four players of the accepted selection
WindowNames == { <<"a">>, <<"b">>, <<"c">>, <<"d">> }

\* Registrations and add-match attempts at any of the clock times
NextWindows ==
    \/ \E n \in WindowNames : RegisterPlayer(n)
    \/ \E sel \in Selections, r \in Remarks, t \in ClockTimes : AddMatchRecord(sel, r, t)

SpecWindows == Init /\ [][NextWindows]_vars

(* ------------------------------------------------------------- properties *)
Count(d, p) == StatsGet(d.player_stats, p, 0)

Contains(m, p) == \E j \in DOMAIN m.players : m.players[j] = p

CountersMatchLedger(d) ==
    \A p \in StatKeys(d.player_stats) : Count(d, p) = today_matches_count(d, p)

PairwiseDistinct(s) == \A i, j \in DOMAIN s : i # j => s[i] # s[j]

\* C1: after registrations and add-match calls only, every player's stored
\* counter equals the number of match records whose player list contains the
\* player, in memory and in the saved file.
C1_CountersMatchLedgerAfterAdds ==
    /\ CountersMatchLedger(data)
    /\ file # NoFile => CountersMatchLedger(file[1])

C1_Witness ==
    /\ Len(data.matches) = 2
    /\ \E p, q \in StatKeys(data.player_stats) : Count(data, p) = 2 /\ Count(data, q) = 0

\* C2: in every reachable state, whatever operations led to it, every player
\* that has a counter has a counter equal to the number of match records whose
\* player list contains the player.
C2_CountersMatchLedgerAlways ==
    \A p \in StatKeys(data.player_stats) :
        StatsGet(data.player_stats, p, 0) =
            Cardinality({ i \in DOMAIN data.matches : Contains(data.matches[i], p) })

\* C3: an add-match attempt with fewer than 4 filled slots, or with a repeated
\* player, changes nothing; and whenever the ledger grows, the new record holds
\* 4 pairwise distinct players that were registered.
C3_RejectedAddChangesNothing ==
    [][ /\ \A sel \in Selections, r \in Remarks, t \in Times :
             ( /\ \/ \E i \in 1..4 : sel[i] = Blank
                  \/ ~PairwiseDistinct(sel)
               /\ message' \in {"select4", "unique", "added"}
               /\ AddMatchRecord(sel, r, t) )
             => /\ data' = data
                /\ file' = file
                /\ today' = today
                /\ message' \in {"select4", "unique"}
        /\ Len(data'.matches) > Len(data.matches)
             => LET new == data'.matches[Len(data'.matches)].players
                IN /\ Len(new) = 4
                   /\ PairwiseDistinct(new)
                   /\ SeqToSet(new) \subseteq StatKeys(data.player_stats)
      ]_vars

C3_Witness ==
    /\ message = "unique"
    /\ Len(data.matches) = 1
    /\ \A p \in {<<"A">>, <<"B">>, <<"C">>, <<"D">>} : Count(data, p) = 1

Stale == file # NoFile /\ file[1].date # today

\* C4: a load that finds a snapshot of another day returns today's date, no
\* matches, the same registered players, and a counter of 0 for each of them,
\* so that the roster of selectable players is the roster before the rollover.
C4_RolloverKeepsRosterAtZero ==
    [][ (Stale /\ Rerun)
          => /\ data'.date = today
             /\ data'.matches = <<>>
             /\ DOMAIN data'.name_map = DOMAIN file[1].name_map
             /\ existing_players(data') = existing_players(file[1])
             /\ \A p \in existing_players(file[1]) :
                    StatsHas(data'.player_stats, p) /\ Count(data', p) = 0
      ]_vars

\* C5: renaming a player to a name whose key is another registered player is
\* rejected and leaves registry, matches and counters as they were.
C5_RenameConflictRejected ==
    [][ \A p \in EditChoices \ {Blank}, n \in NewNames :
          ( /\ UpdateName(p, n)
            /\ normalize_name(n) \in existing_players(data)
            /\ normalize_name(n) # p )
          => /\ data'.player_stats = data.player_stats
             /\ data'.name_map = data.name_map
             /\ data'.matches = data.matches
      ]_vars

\* C6: a rename of registered player P to a key Q that no player holds puts Q
\* in P's slots of every match record and leaves the other slots, the ids,
\* times and remarks as they were; Q's counter is P's old counter, P has no
\* counter and no registry entry, and every other counter is unchanged.
C6_RenameToUnusedKeyCascades ==
    [][ \A p \in EditChoices \ {Blank}, n \in NewNames :
          LET q == normalize_name(n)
          IN ( /\ message' = "renamed"
               /\ Strip(n) # Blank
               /\ q \notin existing_players(data)
               /\ UpdateName(p, n) )
             => /\ Len(data'.matches) = Len(data.matches)
                /\ \A i \in DOMAIN data.matches :
                      /\ data'.matches[i].id = data.matches[i].id
                      /\ data'.matches[i].time = data.matches[i].time
                      /\ data'.matches[i].remark = data.matches[i].remark
                      /\ Len(data'.matches[i].players) = Len(data.matches[i].players)
                      /\ \A j \in DOMAIN data.matches[i].players :
                            data'.matches[i].players[j] =
                                IF data.matches[i].players[j] = p
                                THEN q ELSE data.matches[i].players[j]
                /\ \A i \in DOMAIN data'.matches : ~Contains(data'.matches[i], p)
                /\ StatsHas(data'.player_stats, q)
                /\ Count(data', q) = Count(data, p)
                /\ ~StatsHas(data'.player_stats, p)
                /\ p \notin DOMAIN data'.name_map
                /\ q \in DOMAIN data'.name_map
                /\ existing_players(data') = (existing_players(data) \ {p}) \cup {q}
                /\ \A o \in existing_players(data) \ {p} : Count(data', o) = Count(data, o)
                /\ file' = <<data'>>
      ]_vars

C6_Witness ==
    /\ message = "renamed"
    /\ Len(data.matches) = 2
    /\ data.matches[1].players = << <<"B">>, <<"E">>, <<"D">>, <<"C">> >>
    /\ data.matches[2].players = << <<"B">>, <<"E">>, <<"D">>, <<"C">> >>
    /\ Count(data, <<"E">>) = 2
    /\ ~StatsHas(data.player_stats, <<"A">>)

\* C7: no match record's player list holds the same player key twice.
C7_NoDuplicateInRecord ==
    \A i \in DOMAIN data.matches : PairwiseDistinct(data.matches[i].players)

\* C8: every player key in a match record has a counter entry and a registry
\* entry, in memory and in the saved file.
C8_MatchPlayersRegistered ==
    /\ \A i \in DOMAIN data.matches :
          /\ SeqToSet(data.matches[i].players) \subseteq StatKeys(data.player_stats)
          /\ SeqToSet(data.matches[i].players) \subseteq DOMAIN data.name_map
    /\ file # NoFile =>
          \A i \in DOMAIN file[1].matches :
             /\ SeqToSet(file[1].matches[i].players) \subseteq StatKeys(file[1].player_stats)
             /\ SeqToSet(file[1].matches[i].players) \subseteq DOMAIN file[1].name_map

C8_Witness ==
    /\ message = "removed"
    /\ Len(data.matches) = 2
    /\ data.matches[1].players = << <<"B">>, <<"E">>, <<"C">> >>
    /\ data.matches[2].players = << <<"B">>, <<"A">>, <<"C">> >>

\* C9: the k-th record of the ledger has id k, so ids are 1-based, strictly
\* increasing and never shared within a day; the first record after a reset or
\* a rollover has id 1.
C9_IdIsPosition ==
    /\ \A k \in DOMAIN data.matches : data.matches[k].id = k
    /\ file # NoFile => \A k \in DOMAIN file[1].matches : file[1].matches[k].id = k

C9_Witness ==
    /\ today = 2
    /\ data.date = 2
    /\ Len(data.matches) = 2
    /\ Len(data.matches[1].players) = 3
    /\ Len(data.matches[2].players) = 4

\* C10: an accepted add-match appends one record after the unchanged earlier
\* records, adds 1 to the counter of each of its 4 players, leaves every other
\* counter, the registry and the date unchanged, and saves exactly that state.
C10_AddMatchFrame ==
    [][ \A sel \in Selections, r \in Remarks, t \in Times :
          ( /\ message' = "added"
            /\ \A i \in 1..4 : sel[i] # Blank
            /\ PairwiseDistinct(sel)
            /\ AddMatchRecord(sel, r, t) )
          => /\ Len(data'.matches) = Len(data.matches) + 1
             /\ SubSeq(data'.matches, 1, Len(data.matches)) = data.matches
             /\ data'.matches[Len(data'.matches)].players = sel
             /\ data'.matches[Len(data'.matches)].time = t
             /\ data'.matches[Len(data'.matches)].remark = r
             /\ existing_players(data') = existing_players(data)
             /\ \A p \in existing_players(data) :
                    Count(data', p) = Count(data, p) + (IF p \in SeqToSet(sel) THEN 1 ELSE 0)
             /\ data'.name_map = data.name_map
             /\ data'.date = data.date
             /\ today' = today
             /\ file' = <<data'>>
      ]_vars

C10_Witness ==
    /\ message = "added"
    /\ Len(data.matches) = 2
    /\ \E p, q \in existing_players(data) :
          /\ Contains(data.matches[2], p) /\ Count(data, p) = 1
          /\ ~Contains(data.matches[2], q) /\ Count(data, q) = 1

RECURSIVE Without(_, _)
Without(s, p) ==
    IF s = <<>> THEN <<>>
    ELSE IF Head(s) = p THEN Without(Tail(s), p)
         ELSE <<Head(s)>> \o Without(Tail(s), p)

\* C11: removing a registered player deletes the player's registry entry and
\* counter entry and takes the player out of every match record's player list,
\* the others keeping their order; the records, their ids, times, remarks and
\* order, and every other player's counter and registry entry stay as they were.
C11_RemoveFrame ==
    [][ \A p \in RemoveChoices \ {Blank} :
          ( /\ message' = "removed"
            /\ RemovePlayer(p) )
          => /\ ~StatsHas(data'.player_stats, p)
             /\ p \notin DOMAIN data'.name_map
             /\ Len(data'.matches) = Len(data.matches)
             /\ \A i \in DOMAIN data.matches :
                   /\ data'.matches[i].id = data.matches[i].id
                   /\ data'.matches[i].time = data.matches[i].time
                   /\ data'.matches[i].remark = data.matches[i].remark
                   /\ data'.matches[i].players = Without(data.matches[i].players, p)
             /\ existing_players(data') = existing_players(data) \ {p}
             /\ \A o \in existing_players(data) \ {p} : Count(data', o) = Count(data, o)
             /\ DOMAIN data'.name_map = DOMAIN data.name_map \ {p}
             /\ \A o \in DOMAIN data'.name_map : data'.name_map[o] = data.name_map[o]
             /\ data'.date = data.date
             /\ file' = <<data'>>
      ]_vars

C11_Witness ==
    /\ message = "removed"
    /\ Len(data.matches) = 1
    /\ data.matches[1].players = << <<"B">>, <<"A">>, <<"C">> >>
    /\ existing_players(data) = { <<"A">>, <<"B">>, <<"C">>, <<"E">> }
    /\ Count(data, <<"A">>) = 1
    /\ Count(data, <<"E">>) = 0

\* C12: loading again what a load returned and saved gives the same dict and
\* the same file, and a load leaves the registry (name_map) as the file had it.
C12_RolloverIdempotent ==
    LET first == load_from(file, today)
        second == load_from(first.f, today)
    IN /\ second.d = first.d
       /\ second.f = first.f
       /\ file # NoFile => first.d.name_map = file[1].name_map

C12_Witness ==
    /\ Stale
    /\ Len(file[1].matches) = 2
    /\ DOMAIN file[1].name_map = { <<"A">>, <<"B">>, <<"C">>, <<"D">>, <<"E">> }
    /\ load_from(file, today).d.matches = <<>>

\* C13: every script run returns a dict stamped with today and leaves a file
\* stamped with today; a load of a file already stamped with today returns it
\* unchanged and writes nothing, so a page load keeps the day's matches.
C13_LoadEndsCurrent ==
    [][ /\ today' = today =>
             /\ data'.date = today
             /\ file' # NoFile => file'[1].date = today
        /\ (file # NoFile /\ file[1].date = today) =>
             /\ load_from(file, today).d = file[1]
             /\ load_from(file, today).f = file
             /\ Rerun => (file' = file /\ data' = file[1])
      ]_vars

C13_Witness ==
    /\ message = "none"
    /\ today = 2
    /\ file # NoFile
    /\ file[1].date = today
    /\ data = file[1]
    /\ Len(data.matches) = 2

\* C14: registering a name whose key the registry (name_map) already holds
\* changes neither the registry nor the counters: no counter is reset and no
\* counter entry is created or removed.
C14_ReRegisterIsNoOp ==
    [][ \A n \in Names :
          ( /\ message' = "registered"
            /\ normalize_name(n) \in DOMAIN load_data.d.name_map
            /\ RegisterPlayer(n) )
          => /\ data'.name_map = load_data.d.name_map
             /\ data'.player_stats = load_data.d.player_stats
      ]_vars

\* Names of up to MaxNameLen characters, with spaces, both cases and an inner space
NameChars == { " ", "a", "A", "b" }

TypedNames == UNION { [1..n -> NameChars] : n \in 0..MaxNameLen }

NormalizeIdempotent ==
    \A n \in TypedNames \cup Names \cup NewNames :
        normalize_name(normalize_name(n)) = normalize_name(n)

LowerChar(c) ==
    CASE c = "A" -> "a"
      [] c = "B" -> "b"
      [] c = "C" -> "c"
      [] c = "D" -> "d"
      [] c = "E" -> "e"
      [] OTHER -> c

\* the name without surrounding spaces and without its letter case
Folded(s) == LET t == Strip(s) IN [i \in 1..Len(t) |-> LowerChar(t[i])]

StoredKeys(d) ==
    DOMAIN d.name_map \cup { d.name_map[k] : k \in DOMAIN d.name_map }
        \cup StatKeys(d.player_stats)
        \cup UNION { SeqToSet(d.matches[i].players) : i \in DOMAIN d.matches }

\* C15: normalize_name is idempotent; every key stored in the registry, the
\* counters and the match records is a fixed point of it; and no two distinct
\* stored keys differ only by letter case or surrounding spaces.
C15_KeysNormalized ==
    /\ NormalizeIdempotent
    /\ \A k \in StoredKeys(data) : normalize_name(k) = k
    /\ \A k1, k2 \in StoredKeys(data) : Folded(k1) = Folded(k2) => k1 = k2

C15_Witness ==
    /\ message = "renamed"
    /\ Len(data.matches) = 1
    /\ Contains(data.matches[1], <<"E">>)
    /\ existing_players(data) = { <<"B">>, <<"C">>, <<"D">>, <<"E">> }
    /\ DOMAIN data.name_map = { <<"B">>, <<"C">>, <<"D">>, <<"E">> }

\* C16: a Register Player or Update Name run whose name is empty after
\* stripping does nothing beyond load_data (nothing at all on a file of today),
\* and the empty string is never a key of the registry or of the counters.
C16_BlankNameIgnored ==
    [][ /\ \A n \in Names :
             ( /\ message' = "none"
               /\ Strip(n) = Blank
               /\ RegisterPlayer(n) )
             => /\ data' = load_data.d
                /\ file' = load_data.f
                /\ (file # NoFile /\ ~Stale) => (file' = file /\ data' = file[1])
        /\ \A p \in EditChoices, n \in NewNames :
             ( /\ message' = "none"
               /\ Strip(n) = Blank
               /\ UpdateName(p, n) )
             => /\ data' = load_data.d
                /\ file' = load_data.f
                /\ (file # NoFile /\ ~Stale) => (file' = file /\ data' = file[1])
        /\ Blank \notin DOMAIN data'.name_map
        /\ Blank \notin StatKeys(data'.player_stats)
        /\ \A n \in Names : Strip(n) = Blank => message' # "registered" \/ ~RegisterPlayer(n)
      ]_vars

C16_Witness ==
    /\ message = "none"
    /\ today = 1
    /\ file # NoFile
    /\ data = file[1]
    /\ Len(data.matches) = 1
    /\ existing_players(data) = { <<"A">>, <<"B">>, <<"C">>, <<"D">> }

\* Python compares strings by code point, character by character
CharCode(c) ==
    CASE c = " " -> 32
      [] c = "A" -> 65 [] c = "B" -> 66 [] c = "C" -> 67 [] c = "D" -> 68 [] c = "E" -> 69
      [] c = "a" -> 97 [] c = "b" -> 98 [] c = "c" -> 99 [] c = "d" -> 100 [] c = "e" -> 101

RECURSIVE KeyLess(_, _)
KeyLess(a, b) ==
    IF b = <<>> THEN FALSE
    ELSE IF a = <<>> THEN TRUE
    ELSE IF Head(a) # Head(b) THEN CharCode(Head(a)) < CharCode(Head(b))
    ELSE KeyLess(Tail(a), Tail(b))

\* C17: the ranking lists every player with a counter exactly once, by
\* descending count, and players of equal count by ascending key, whatever the
\* order in which they were registered, renamed or played.
C17_RankedByCountThenKey ==
    LET ranked == ranked_counts(data.player_stats)
    IN /\ Len(ranked) = Cardinality(existing_players(data))
       /\ { ranked[i].name : i \in DOMAIN ranked } = existing_players(data)
       /\ \A i \in DOMAIN ranked : ranked[i].count = Count(data, ranked[i].name)
       /\ \A i, j \in DOMAIN ranked :
             i < j => \/ ranked[i].count > ranked[j].count
                      \/ /\ ranked[i].count = ranked[j].count
                         /\ KeyLess(ranked[i].name, ranked[j].name)

RECURSIVE SumOverRanges(_, _, _)
SumOverRanges(d, p, r) ==
    IF r = 0 THEN 0
    ELSE SumOverRanges(d, p, r - 1) +
         (IF p \in DOMAIN stats_by_time_range(d)[r] THEN stats_by_time_range(d)[r][p] ELSE 0)

\* C18: every recorded match is counted in exactly one bucket of the time-range
\* statistics, so for every player the counts over all buckets add up to the
\* number of matches the player appears in.
C18_EveryMatchInOneBucket ==
    /\ \A i \in DOMAIN data.matches :
          Cardinality({ r \in DOMAIN TIME_RANGES :
                          time_in_range(data.matches[i].time,
                                        TIME_RANGES[r][1], TIME_RANGES[r][2]) }) = 1
    /\ \A p \in existing_players(data) :
          SumOverRanges(data, p, Len(TIME_RANGES)) = today_matches_count(data, p)

\* C19: every stored match record has exactly 4 players, so the match history,
\* which unpacks two players from slots [0:2] and two from slots [2:], renders.
C19_EveryRecordHasFourPlayers ==
    \A i \in DOMAIN data.matches : Len(data.matches[i].players) = 4

\* C20: the reset keeps the keys of player_stats and of name_map and the date
\* of the loaded dict, sets every counter to 0 and empties matches; a second
\* reset changes nothing more.
C20_ResetFrame ==
    [][ ( /\ message' = "reset"
          /\ ResetCounters )
        => /\ [i \in DOMAIN data'.player_stats |-> data'.player_stats[i].name] =
                  [i \in DOMAIN load_data.d.player_stats |-> load_data.d.player_stats[i].name]
           /\ data'.name_map = load_data.d.name_map
           /\ data'.date = load_data.d.date
           /\ (file # NoFile /\ ~Stale) =>
                  /\ existing_players(data') = existing_players(file[1])
                  /\ data'.date = file[1].date
           /\ \A p \in existing_players(data') : Count(data', p) = 0
           /\ data'.matches = <<>>
           /\ reset_counters(data') = data'
           /\ file' = <<data'>>
      ]_vars

C20_Witness ==
    /\ message = "reset"
    /\ today = 2
    /\ data.date = 2
    /\ existing_players(data) = { <<"A">>, <<"B">>, <<"C">>, <<"D">>, <<"E">> }
    /\ data.matches = <<>>

====
